---------------------------- MODULE Spec2Model ----------------------------
(***************************************************************************)
(* A model of async-pdf's PDF class (src/src/core/pdf.ts): the unit        *)
(* converter, the position normalizer with its bounds checks, and the      *)
(* page lifecycle (scratch files, record, counter, pointer, assembly).     *)
(*                                                                         *)
(* Lengths are integers in hundredths: a value v in a unit is the integer  *)
(* 100*v, a length in points is the integer 100*pt.  The converters round  *)
(* to two decimals, so hundredths are exact for everything they return.    *)
(* Text widths are drawn from even numbers so that width/2 is exact.       *)
(***************************************************************************)
EXTENDS Integers, Sequences, FiniteSets, TLC

(***************************************************************************)
(* Bounds of the model.                                                    *)
(***************************************************************************)
MaxPages == 3
MaxDraws == 2
HistLen == 4
MaxOps == 5
MaxDrawOps == 3
MaxValue == 36
MaxRemoveOps == 8

(***************************************************************************)
(* Optional values: an absent (undefined) argument is <<>>, a present one  *)
(* is <<v>>.                                                               *)
(***************************************************************************)
None == <<>>
Some(v) == <<v>>
OrElse(o, d) == IF o = <<>> THEN d ELSE o[1]

(***************************************************************************)
(* Unit converter (utils/unitNormalizer).                                  *)
(***************************************************************************)
\* (value * num / den).toFixed(2), in hundredths: the magnitude of num / den
\* rounded half up (den is 1 or even).
RoundDiv(n, d) ==
    IF n >= 0 THEN (n + d \div 2) \div d
    ELSE 0 - (((0 - n) + d \div 2) \div d)

\* The factors as reduced fractions, which keeps the products within 32 bits:
\* 0.75 = 3/4, 28.3465 = 56693/2000, 0.0836 = 209/2500, 2.83465 = 56693/20000,
\* 4.30554 = 215277/50000.
\* A converter that takes an absent value for one unit.
PDFUnitNormalizerToPTOfOne(unit, value) ==
    LET v == OrElse(value, 100) IN
    CASE unit = Some("px") -> RoundDiv(v * 3, 4)
      [] unit = Some("in") -> RoundDiv(v * 72, 1)
      [] unit = Some("cm") -> RoundDiv(v * 56693, 2000)
      [] unit = Some("em") -> RoundDiv(v * 209, 2500)
      [] unit = Some("mm") -> RoundDiv(v * 56693, 20000)
      [] unit = Some("ex") -> RoundDiv(v * 215277, 50000)
      [] unit = Some("pc") -> RoundDiv(v * 12, 1)
      [] OTHER -> v

PDFUnitNormalizerToPT(unit, value) ==
    IF value = None \/ value = Some(0) THEN 0
    ELSE LET v == value[1] IN
         CASE unit = Some("pt") -> v
           [] unit = Some("px") -> RoundDiv(v * 3, 4)
           [] unit = Some("in") -> RoundDiv(v * 72, 1)
           [] unit = Some("cm") -> RoundDiv(v * 56693, 2000)
           [] unit = Some("em") -> RoundDiv(v * 209, 2500)
           [] unit = Some("mm") -> RoundDiv(v * 56693, 20000)
           [] unit = Some("ex") -> RoundDiv(v * 215277, 50000)
           [] unit = Some("pc") -> RoundDiv(v * 12, 1)
           [] OTHER -> v

\* value * num / den rounded as RoundDiv does, computed in parts that stay
\* within 32 bits: value = vh * 1000 + vl and 1000 * num = tq * den + tr.
RoundMul(value, num, den) ==
    LET vh == value \div 1000
        vl == value % 1000
        tq == (1000 * num) \div den
        tr == (1000 * num) % den
    IN  vh * tq + RoundDiv(vh * tr + vl * num, den)

\* The inverse factors as the source lists them: 1.3333333333333333 = 4/3 and
\* 0.013888888888888888 = 1/72 to the precision of a double,
\* 0.0352778 = 176389/5000000, 0.0836 = 209/2500, 0.352778 = 176389/500000,
\* 0.23255 = 4651/20000, 0.08333 = 8333/100000.
PDFUnitNormalizerFromPT(unit, value) ==
    IF value = None \/ value = Some(0) THEN 0
    ELSE LET v == value[1] IN
         CASE unit = Some("pt") -> v
           [] unit = Some("px") -> RoundMul(v, 4, 3)
           [] unit = Some("in") -> RoundMul(v, 1, 72)
           [] unit = Some("cm") -> RoundMul(v, 176389, 5000000)
           [] unit = Some("em") -> RoundMul(v, 209, 2500)
           [] unit = Some("mm") -> RoundMul(v, 176389, 500000)
           [] unit = Some("ex") -> RoundMul(v, 4651, 20000)
           [] unit = Some("pc") -> RoundMul(v, 8333, 100000)
           [] OTHER -> v

\* PageSizes.A4 of the document library, [595.28, 841.89] points.
A4Width == 59528
A4Height == 84189
PageSizesA4 == <<A4Width, A4Height>>

PDFGetPageSizeByUnit(unit, pageSize) ==
    IF unit = None \/ pageSize = None THEN None
    ELSE Some(<<PDFUnitNormalizerToPT(unit, Some(pageSize[1].line)),
                PDFUnitNormalizerToPT(unit, Some(pageSize[1].column))>>)

(***************************************************************************)
(* Alignment resolver (utils/PDFVerticalAlignmentFormatter).               *)
(***************************************************************************)
\* The legacy resolver (utils/verticalAlignmentFormatter): its center case
\* computes position - size / 2 and drops it.
verticalAlignmentFormatter(align, position, size) ==
    CASE align = "center" -> position
      [] align = "left" -> position
      [] align = "right" -> position - size
      [] OTHER -> position

\* A resolver that shifts for right only.
PDFVerticalAlignmentFormatterRightOnly(align, position, size) ==
    CASE align = "right" -> position - size
      [] OTHER -> position

PDFVerticalAlignmentFormatter(align, position, size) ==
    CASE align = "center" -> position - (size \div 2)
      [] align = "left" -> position
      [] align = "right" -> position - size
      [] OTHER -> position

(***************************************************************************)
(* Pages and documents of the document library.  A page is its size and    *)
(* the set of marks drawn on it; a document is a sequence of pages.        *)
(***************************************************************************)
BlankPage(size) == [w |-> size[1], h |-> size[2], marks |-> {}]

\* PDFDocument.save() adds a default (A4, blank) page to a document without pages.
DocumentSave(doc) == IF doc = <<>> THEN <<BlankPage(PageSizesA4)>> ELSE doc

\* The source documents loadPDF and mergePDF can be given; "x" does not exist.
SourceFiles ==
    [a |-> <<[w |-> A4Width, h |-> A4Height, marks |-> {101}]>>,
     b |-> <<[w |-> A4Width, h |-> A4Height, marks |-> {102}]>>,
     c |-> <<[w |-> A4Width, h |-> A4Height, marks |-> {103}],
             [w |-> A4Width, h |-> A4Height, marks |-> {104}]>>]
SourcePaths == {"a", "b", "c", "x"}
ExistsSource(path) == path \in DOMAIN SourceFiles


(***************************************************************************)
(* The state of one PDF instance.                                          *)
(*   document      the pages of this.document                              *)
(*   page          the index in document of this.page, 0 when this.page is *)
(*                 a page of a document that was replaced or was removed   *)
(*   files         the scratch files: part index N |-> pages of            *)
(*                 <file>part<N>; the domain is the files that exist       *)
(*   mergeFiles    the record, as part indices                             *)
(*   out           the pages of the destination file of save, <<>> before  *)
(*   drawn         the arguments of the last draw primitive invoked        *)
(*   nextMark      the mark the next draw primitive leaves on its page     *)
(*   measured      whether the last operation asked the font for the       *)
(*                 height and the width of a text                          *)
(*   op, err       the last operation and the error it threw ("none")      *)
(*   settle        how the last call ended for its caller                  *)
(*   hist          the first HistLen operations issued, then Long          *)
(*   calls         the number of operations issued since create            *)
(*   util          the last call of a utility function (converter, alignment *)
(*                 resolver) with its arguments and its result               *)
(***************************************************************************)
VARIABLES document, page, files, mergeFiles, pagesControl, pageSelected,
          unit, pageSize, orientation, pageFraming, pageSpacing, limits,
          out, drawn, nextMark, measured, op, err, settle, hist, calls, util

\* The variables of the PDF instance and of its caller.
pdfVars == <<document, page, files, mergeFiles, pagesControl, pageSelected,
             unit, pageSize, orientation, pageFraming, pageSpacing, limits,
             out, drawn, nextMark, measured, op, err, settle, hist, calls>>

vars == <<pdfVars, util>>

\* The fields of the instance as one record, threaded through a handler's statements.
Cur ==
    [document |-> document, page |-> page, files |-> files,
     mergeFiles |-> mergeFiles, pagesControl |-> pagesControl,
     pageSelected |-> pageSelected, unit |-> unit, pageSize |-> pageSize,
     orientation |-> orientation, pageFraming |-> pageFraming,
     pageSpacing |-> pageSpacing, limits |-> limits, out |-> out,
     drawn |-> drawn, nextMark |-> nextMark, measured |-> FALSE, err |-> "none"]

Throw(s, e) == [s EXCEPT !.err = e]
\* A thrown error skips the statements after it: each later statement of a
\* handler runs only on a state that is Ok.
Ok(s) == s.err = "none"

Range(q) == {q[i] : i \in DOMAIN q}
Put(f, k, v) == [x \in (DOMAIN f) \cup {k} |-> IF x = k THEN v ELSE f[x]]
Drop(f, k) == [x \in (DOMAIN f) \ {k} |-> f[x]]
RemoveAt(q, i) == [j \in 1..(Len(q) - 1) |-> IF j < i THEN q[j] ELSE q[j + 1]]

(***************************************************************************)
(* Page geometry.                                                          *)
(***************************************************************************)
SetOrientation(s, o) ==
    IF o = "landscape"
    THEN [s EXCEPT !.pageSize = <<s.pageSize[2], s.pageSize[1]>>]
    ELSE s

NormalizePageSpacing(s, sp) ==
    IF sp = None
    THEN [top |-> 0, bottom |-> 0, left |-> 0, right |-> 0]
    ELSE [top |-> PDFUnitNormalizerToPT(Some(s.unit), Some(sp[1].top)),
          bottom |-> PDFUnitNormalizerToPT(Some(s.unit), Some(sp[1].bottom)),
          left |-> PDFUnitNormalizerToPT(Some(s.unit), Some(sp[1].left)),
          right |-> PDFUnitNormalizerToPT(Some(s.unit), Some(sp[1].right))]

SetPageLimits(s) ==
    [s EXCEPT !.limits =
        [startLine |-> s.pageFraming.lineStartPosition + s.pageSpacing.left,
         endLine |-> s.pageFraming.lineEndPosition - s.pageSpacing.right,
         startColumn |-> s.pageFraming.columnEndPosition - s.pageSpacing.top,
         endColumn |-> s.pageFraming.columnStartPosition + s.pageSpacing.bottom]]

\* this.page = this.document.addPage(this.pageSize), then framing, spacing, limits.
AddPageAndFrame(s, spacing) ==
    LET s1 == [s EXCEPT !.document = Append(s.document, BlankPage(s.pageSize)),
                        !.page = Len(s.document) + 1,
                        !.pageFraming =
                            [lineStartPosition |-> 0,
                             lineEndPosition |-> s.pageSize[1],
                             columnStartPosition |-> 0,
                             columnEndPosition |-> s.pageSize[2]]]
        s2 == [s1 EXCEPT !.pageSpacing = NormalizePageSpacing(s1, spacing)]
    IN  SetPageLimits(s2)

NoOptions ==
    [unit |-> None, orientation |-> None, pageSize |-> None, pageSpacing |-> None]

Constructor(options) ==
    LET s0 == [document |-> <<>>, page |-> 0, files |-> <<>>,
               mergeFiles |-> <<>>, pagesControl |-> 1, pageSelected |-> 1,
               unit |-> OrElse(options.unit, "mm"),
               pageSize |-> OrElse(PDFGetPageSizeByUnit(options.unit, options.pageSize),
                                   PageSizesA4),
               orientation |-> OrElse(options.orientation, "portrait"),
               pageFraming |-> [lineStartPosition |-> 0, lineEndPosition |-> 0,
                                columnStartPosition |-> 0, columnEndPosition |-> 0],
               pageSpacing |-> [top |-> 0, bottom |-> 0, left |-> 0, right |-> 0],
               limits |-> [startColumn |-> 0, startLine |-> 0,
                           endColumn |-> 0, endLine |-> 0],
               out |-> <<>>, drawn |-> <<>>, nextMark |-> 1, measured |-> FALSE,
               err |-> "none"]
        s1 == SetOrientation(s0, s0.orientation)
    IN  AddPageAndFrame(s1, options.pageSpacing)

CreateDocument(s) == [s EXCEPT !.document = <<>>, !.page = 0]

CreatePage(s, options) ==
    LET s1 == CreateDocument(s)
        s2 == [s1 EXCEPT !.unit = OrElse(options.unit, s1.unit)]
        s3 == [s2 EXCEPT !.pageSize =
                  OrElse(PDFGetPageSizeByUnit(options.unit, options.pageSize),
                         PageSizesA4)]
        s4 == SetOrientation(s3, OrElse(options.orientation, s3.orientation))
    IN  AddPageAndFrame(s4, options.pageSpacing)

(***************************************************************************)
(* Scratch storage.                                                        *)
(***************************************************************************)
\* existsSync(this.mergeFiles[this.pagesControl - 1])
WasLastPageSaved(s) ==
    /\ s.pagesControl \in 1..Len(s.mergeFiles)
    /\ s.mergeFiles[s.pagesControl] \in DOMAIN s.files

\* writeFile(this.file + `part${n}`, await this.document.save())
WritePart(s, n) ==
    LET d == DocumentSave(s.document)
    IN  [s EXCEPT !.document = d, !.files = Put(s.files, n, d)]

SaveTheLastPage(s) ==
    IF WasLastPageSaved(s) THEN s ELSE WritePart(s, s.pagesControl)

\* part${pageNumber || this.pagesControl}, pushed unless the record holds it.
SavePage(s, pageNumber) ==
    LET n == IF pageNumber = None \/ pageNumber = Some(0)
             THEN s.pagesControl ELSE pageNumber[1]
        s1 == WritePart(s, n)
    IN  IF n \in Range(s1.mergeFiles) THEN s1
        ELSE [s1 EXCEPT !.mergeFiles = Append(s1.mergeFiles, n)]

\* A deletion that unlinks the file and leaves its path in the record.
DeletePageFileKeepsRecord(s, n) ==
    IF n \notin DOMAIN s.files THEN Throw(s, "IOError")
    ELSE [s EXCEPT !.files = Drop(s.files, n)]

\* unlink throws when the file does not exist; the record is filtered after it.
DeletePageFile(s, n) ==
    IF n \notin DOMAIN s.files THEN Throw(s, "IOError")
    ELSE [s EXCEPT !.files = Drop(s.files, n),
                   !.mergeFiles = SelectSeq(s.mergeFiles, LAMBDA m : m # n)]

\* A getPageFile that returns undefined for a missing page instead of throwing.
GetPageFileUnchecked(s, pageNumber) == s

GetPageFile(s, pageNumber) ==
    IF pageNumber \in 1..Len(s.mergeFiles) THEN s
    ELSE Throw(s, "PageNotFound")

\* PDFDocument.removePage(index): throws on an empty document or a bad index.
DocumentRemovePage(s, index) ==
    IF index \notin 0..(Len(s.document) - 1) THEN Throw(s, "LibraryError")
    ELSE [s EXCEPT !.document = RemoveAt(s.document, index + 1),
                   !.page = IF s.page = index + 1 THEN 0
                            ELSE IF s.page > index + 1 THEN s.page - 1
                            ELSE s.page]

\* readFile of a scratch file, PDFDocument.load, copyPages, addPage(pages[0]).
CopyFirstPageOf(s, n) ==
    IF n \notin DOMAIN s.files THEN Throw(s, "IOError")
    ELSE [s EXCEPT !.document = Append(s.document, s.files[n][1])]

\* this.mergeFiles[pageNumber - 1], undefined (None) outside the record.
PageFileOf(s, pageNumber) ==
    IF pageNumber \in 1..Len(s.mergeFiles) THEN Some(s.mergeFiles[pageNumber])
    ELSE None

\* A copy loop that persists each copied page without counting it.
AddCopiedPageUncounted(s, pg) ==
    SavePage([s EXCEPT !.document = Append(s.document, pg)], None)

\* document.addPage(page) of one copied source page, pagesControl++, savePage().
AddCopiedPage(s, pg) ==
    SavePage([s EXCEPT !.document = Append(s.document, pg),
                       !.pagesControl = s.pagesControl + 1], None)

RECURSIVE AddCopiedPages(_, _)
AddCopiedPages(s, pages) ==
    IF pages = <<>> \/ s.err # "none" THEN s
    ELSE AddCopiedPages(AddCopiedPage(s, Head(pages)), Tail(pages))

(***************************************************************************)
(* The handlers of the page lifecycle, as functions of the instance.       *)
(***************************************************************************)
\* A selectPage that reloads the page also when it is the selected one.
SelectPageBodyAlways(s, pageNumber) ==
    LET pageFile == PageFileOf(s, pageNumber)
        s1 == GetPageFile(s, pageNumber)
        s3 == IF Ok(s1) THEN SavePage(SaveTheLastPage(s1), Some(s1.pageSelected)) ELSE s1
        s5 == IF Ok(s3) /\ pageFile # None
              THEN CopyFirstPageOf(CreateDocument(s3), pageFile[1]) ELSE s3
    IN  IF Ok(s5) THEN [s5 EXCEPT !.page = Len(s5.document),
                                  !.pageSelected = pageNumber] ELSE s5

SelectPageBody(s, pageNumber) ==
    IF pageNumber = s.pageSelected THEN s
    ELSE LET pageFile == PageFileOf(s, pageNumber)
             s1 == GetPageFile(s, pageNumber)
             s2 == (IF Ok(s1) THEN SaveTheLastPage(s1) ELSE s1)
             s3 == (IF Ok(s2) THEN SavePage(s2, Some(s2.pageSelected)) ELSE s2)
             s4 == (IF Ok(s3) THEN CreateDocument(s3) ELSE s3)
             s5 == (IF Ok(s4) THEN IF pageFile = None THEN Throw(s4, "IOError")
                       ELSE CopyFirstPageOf(s4, pageFile[1]) ELSE s4)
         IN  (IF Ok(s5) THEN [s5 EXCEPT !.page = Len(s5.document),
                                           !.pageSelected = pageNumber] ELSE s5)

ClearPageBody(s) ==
    LET s1 == SaveTheLastPage(s)
        s2 == DocumentRemovePage(s1, 0)
    IN  (IF Ok(s2) THEN [s2 EXCEPT !.document = Append(s2.document, BlankPage(s2.pageSize)),
                      !.page = Len(s2.document) + 1] ELSE s2)

RemovePageBody(s, pageNumber) ==
    LET pageFile == PageFileOf(s, pageNumber)
        s1 == GetPageFile(s, pageNumber)
    IN  IF s1.err # "none" \/ pageFile = None THEN s1
        ELSE LET s2 == DeletePageFile(s1, pageFile[1])
                 s3 == (IF Ok(s2) THEN DocumentRemovePage(s2, pageNumber - 1) ELSE s2)
             IN  (IF Ok(s3) THEN [s3 EXCEPT !.pagesControl = s3.pagesControl - 1] ELSE s3)

\* An addPage that moves the pointer without counting the new page.
AddPageBodyUncounted(s, pageOptions) ==
    LET s3 == CreatePage(CreateDocument(SavePage(s, None)), pageOptions)
    IN  [s3 EXCEPT !.pageSelected = s3.pageSelected + 1]

AddPageBody(s, pageOptions) ==
    LET s1 == SavePage(s, None)
        s2 == CreateDocument(s1)
        s3 == CreatePage(s2, pageOptions)
    IN  [s3 EXCEPT !.pagesControl = s3.pagesControl + 1,
                   !.pageSelected = s3.pageSelected + 1]

LoadPDFBody(s, pdfFilePath) ==
    IF ~ExistsSource(pdfFilePath) THEN Throw(s, "SourceFileNotFound")
    ELSE LET s1 == SavePage(s, None)
             s2 == CreateDocument(s1)
         IN  AddCopiedPages(s2, SourceFiles[pdfFilePath])

\* A mergePDF that copies each source into the document of the one before it.
MergeOneFileKeepsDocument(s, file) ==
    IF ~ExistsSource(file) THEN Throw(s, "SourceFileNotFound")
    ELSE AddCopiedPages(s, SourceFiles[file])

MergeOneFile(s, file) ==
    IF ~ExistsSource(file) THEN Throw(s, "SourceFileNotFound")
    ELSE AddCopiedPages(CreateDocument(s), SourceFiles[file])

RECURSIVE MergeFilesLoop(_, _)
MergeFilesLoop(s, paths) ==
    IF paths = <<>> \/ s.err # "none" THEN s
    ELSE MergeFilesLoop(MergeOneFile(s, Head(paths)), Tail(paths))

MergePDFBody(s, pdfFilesPath) ==
    IF pdfFilesPath = <<>> THEN Throw(s, "EmptyFileList")
    ELSE MergeFilesLoop(SavePage(s, None), pdfFilesPath)

RECURSIVE CopyFirstPages(_, _)
CopyFirstPages(s, parts) ==
    IF parts = <<>> \/ s.err # "none" THEN s
    ELSE CopyFirstPages(CopyFirstPageOf(s, Head(parts)), Tail(parts))

\* A deletion loop that has not run when save goes on.
UnlinkNothing(s) == s

\* for (let file of this.mergeFiles) if (existsSync(file)) await unlinkPromise(file)
UnlinkMergeFiles(s) ==
    [s EXCEPT !.files = [n \in (DOMAIN s.files) \ Range(s.mergeFiles) |-> s.files[n]]]

\* The destinations save can be given; "denied" cannot be written.
SavePaths == {"out", "denied"}
WritableFile(filePath) == filePath = "out"

\* writeFile(filePath, await this.document.save()): the document is serialized
\* first, then the write succeeds or throws.
WriteDestination(s, filePath) ==
    LET d == DocumentSave(s.document)
    IN  IF WritableFile(filePath) THEN [s EXCEPT !.document = d, !.out = d]
        ELSE Throw([s EXCEPT !.document = d], "IOError")

\* An assembly that deletes the scratch files before it writes the destination.
MergeGroupOfPDFUnlinkFirst(s, filePath) ==
    IF s.mergeFiles = <<>> /\ s.pagesControl = 0 THEN Throw(s, "NoPagesToSave")
    ELSE IF s.mergeFiles = <<>> THEN WriteDestination(s, filePath)
    ELSE LET s2 == SavePage(SaveTheLastPage(s), None)
             s4 == CopyFirstPages(CreateDocument(s2), s2.mergeFiles)
             s5 == IF Ok(s4) THEN WriteDestination(UnlinkMergeFiles(s4), filePath) ELSE s4
         IN  IF Ok(s5) THEN [s5 EXCEPT !.mergeFiles = <<>>] ELSE s5

MergeGroupOfPDF(s, filePath) ==
    IF s.mergeFiles = <<>> /\ s.pagesControl = 0 THEN Throw(s, "NoPagesToSave")
    ELSE IF s.mergeFiles = <<>>
    THEN WriteDestination(s, filePath)
    ELSE LET s1 == SaveTheLastPage(s)
             s2 == WritePart(s1, s1.pagesControl)
             s3 == IF s2.pagesControl \in Range(s2.mergeFiles) THEN s2
                   ELSE [s2 EXCEPT !.mergeFiles = Append(s2.mergeFiles, s2.pagesControl)]
             s4 == CopyFirstPages(CreateDocument(s3), s3.mergeFiles)
             s5 == (IF Ok(s4) THEN WriteDestination(s4, filePath) ELSE s4)
             s6 == (IF Ok(s5) THEN UnlinkMergeFiles(s5) ELSE s5)
         IN  (IF Ok(s6) THEN [s6 EXCEPT !.mergeFiles = <<>>] ELSE s6)

\* A save that persists the page in memory with savePage, which records it.
SaveBodyRecordingPage(s, filePath) == MergeGroupOfPDF(SavePage(s, None), filePath)

SaveBody(s, filePath) == MergeGroupOfPDF(SaveTheLastPage(s), filePath)

(***************************************************************************)
(* Position normalizer and the draw operations.                            *)
(***************************************************************************)
VerifyColumnByLimit(s, columnPosition, height) ==
    IF columnPosition < s.pageFraming.columnStartPosition + s.pageSpacing.top
    THEN Throw(s, "OutOfRangeColumn")
    ELSE IF columnPosition > s.pageFraming.columnEndPosition - s.pageSpacing.bottom
    THEN Throw(s, "OutOfRangeColumn")
    ELSE IF columnPosition - height
              < s.pageFraming.columnStartPosition + s.pageSpacing.top
    THEN Throw(s, "OutOfRangeColumnWithHeight")
    ELSE s

VerifyLineByLimit(s, linePosition, width) ==
    IF linePosition < s.limits.startLine THEN Throw(s, "OutOfRangeLine")
    ELSE IF linePosition > s.limits.endLine THEN Throw(s, "OutOfRangeLine")
    ELSE IF linePosition + width > s.limits.endLine
    THEN Throw(s, "OutOfRangeLineWithWidth")
    ELSE s

VerifyPositionsByLimit(s, positions, width, height) ==
    LET s1 == VerifyColumnByLimit(s, positions.columnPosition, height)
    IN  IF Ok(s1) THEN VerifyLineByLimit(s1, positions.linePosition, width) ELSE s1

ColumnNormalize(s, columnPosition) ==
    s.limits.startColumn + s.pageSpacing.top - columnPosition

\* The positions in points, before the bounds check and the column flip.
LinePoints(s, positions) ==
    [linePosition |-> PDFUnitNormalizerToPT(Some(s.unit), Some(positions.linePosition)),
     columnPosition |-> PDFUnitNormalizerToPT(Some(s.unit), Some(positions.columnPosition))]

\* normalizeLine: the state carries the error of the bounds check, if any.
NormalizeLineCheck(s, positions) ==
    VerifyPositionsByLimit(s, LinePoints(s, positions), 0, 0)

NormalizeLine(s, positions) ==
    [linePosition |-> LinePoints(s, positions).linePosition,
     columnPosition |-> ColumnNormalize(s, LinePoints(s, positions).columnPosition)]

\* align || 'left', the alignment normalizePositions hands to the resolver.
AlignOrLeft(align) == OrElse(align, "left")

\* normalizePositions: alignment first, then the bounds check.
AlignedPoints(s, positions, width, align) ==
    [linePosition |->
         PDFVerticalAlignmentFormatter(align, LinePoints(s, positions).linePosition, width),
     columnPosition |-> LinePoints(s, positions).columnPosition]

NormalizePositionsCheck(s, positions, width, height, align) ==
    LET textWidthByAlign == IF align = "center" THEN width \div 2 ELSE width
    IN  VerifyPositionsByLimit(s, AlignedPoints(s, positions, width, align),
                               textWidthByAlign, height)

\* A size check that lets every value through.
IsNegativeIgnored(s, value) == s

IsNegative(s, value) == IF value < 0 THEN Throw(s, "NegativeValue") ELSE s

\* A draw primitive of the library on this.page: it marks the page when the page
\* belongs to the current document, and is lost otherwise.
DrawOnPage(s, args) ==
    [s EXCEPT !.document =
                 IF s.page \in 1..Len(s.document)
                 THEN [s.document EXCEPT ![s.page].marks = @ \cup {s.nextMark}]
                 ELSE s.document,
              !.nextMark = s.nextMark + 1,
              !.drawn = Some(args)]

\* font.heightAtSize(size) and font.widthOfTextAtSize(text, size): o.textHeight
\* and o.textWidth are what they return.
MeasureText(s, o) == [s EXCEPT !.measured = TRUE]

WriteTextBody(s, o) ==
    LET s0 == IsNegative(s, o.size)
        s1 == IF Ok(s0) THEN MeasureText(s0, o) ELSE s0
        s2 == IF Ok(s1)
              THEN NormalizePositionsCheck(s1, o.position, o.textWidth,
                                           o.textHeight, o.align)
              ELSE s1
        at == AlignedPoints(s, o.position, o.textWidth, o.align)
    IN  (IF Ok(s2) THEN DrawOnPage(s2, [kind |-> "text",
                           x |-> at.linePosition,
                           y |-> ColumnNormalize(s2, at.columnPosition),
                           width |-> o.textWidth, height |-> o.textHeight]) ELSE s2)

WriteLineBody(s, o) ==
    LET s1 == NormalizeLineCheck(s, o.start)
        s2 == (IF Ok(s1) THEN NormalizeLineCheck(s1, o.end) ELSE s1)
        startPosition == NormalizeLine(s, o.start)
        endPosition == NormalizeLine(s, o.end)
    IN  (IF Ok(s2) THEN DrawOnPage(s2, [kind |-> "line",
                           x |-> startPosition.linePosition,
                           y |-> startPosition.columnPosition,
                           width |-> endPosition.linePosition - startPosition.linePosition,
                           height |-> endPosition.columnPosition
                                          - startPosition.columnPosition]) ELSE s2)

\* A writeRectangle that draws before it checks the far corner.
WriteRectangleBodyDrawFirst(s, o) ==
    LET s1 == NormalizeLineCheck(s, o.start)
        startPosition == NormalizeLine(s, o.start)
        height == PDFUnitNormalizerToPT(Some("mm"), Some(o.area.height))
        s2 == IF Ok(s1)
              THEN DrawOnPage(s1, [kind |-> "rectangle",
                                   x |-> startPosition.linePosition,
                                   y |-> startPosition.columnPosition - height,
                                   width |-> PDFUnitNormalizerToPT(Some("mm"),
                                                                   Some(o.area.width)),
                                   height |-> height])
              ELSE s1
    IN  IF Ok(s2)
        THEN NormalizeLineCheck(s2,
                 [linePosition |-> o.start.linePosition + o.area.width,
                  columnPosition |-> o.start.columnPosition + o.area.height])
        ELSE s2

\* The unit writeRectangle converts the area with.
RectangleAreaUnit(s) == "mm"

WriteRectangleBody(s, o) ==
    LET s1 == NormalizeLineCheck(s, o.start)
        s2 == (IF Ok(s1) THEN NormalizeLineCheck(s1,
                      [linePosition |-> o.start.linePosition + o.area.width,
                       columnPosition |-> o.start.columnPosition + o.area.height]) ELSE s1)
        startPosition == NormalizeLine(s, o.start)
        areaNormalized ==
            [width |-> PDFUnitNormalizerToPT(Some(RectangleAreaUnit(s)), Some(o.area.width)),
             height |-> PDFUnitNormalizerToPT(Some(RectangleAreaUnit(s)), Some(o.area.height))]
    IN  (IF Ok(s2) THEN DrawOnPage(s2, [kind |-> "rectangle",
                           x |-> startPosition.linePosition,
                           y |-> startPosition.columnPosition - areaNormalized.height,
                           width |-> areaNormalized.width,
                           height |-> areaNormalized.height]) ELSE s2)

\* A setPageSpacing that leaves the limits of the spacing before it.
SetPageSpacingBodyStale(s, spacing) ==
    [s EXCEPT !.pageSpacing = NormalizePageSpacing(s, Some(spacing))]

SetPageSpacingBody(s, spacing) ==
    SetPageLimits([s EXCEPT !.pageSpacing = NormalizePageSpacing(s, Some(spacing))])

(***************************************************************************)
(* Inputs.                                                                 *)
(***************************************************************************)
\* Options of create and addPage: none; a 100 x 150 mm page with 10 mm margins;
\* a landscape 200 x 300 pt page with 10 pt margins.
Margins10 == [top |-> 1000, bottom |-> 1000, left |-> 1000, right |-> 1000]
SmallMM ==
    [unit |-> Some("mm"), orientation |-> None,
     pageSize |-> Some([line |-> 10000, column |-> 15000]),
     pageSpacing |-> Some(Margins10)]
SmallPT ==
    [unit |-> Some("pt"), orientation |-> Some("landscape"),
     pageSize |-> Some([line |-> 30000, column |-> 20000]),
     pageSpacing |-> Some(Margins10)]

\* A page size without a unit, and an orientation alone.
SizeOnly ==
    [unit |-> None, orientation |-> None,
     pageSize |-> Some([line |-> 10000, column |-> 15000]), pageSpacing |-> None]
LandscapeOnly ==
    [unit |-> None, orientation |-> Some("landscape"),
     pageSize |-> None, pageSpacing |-> None]

LifeOptions == {NoOptions, SmallPT}
PageOptions == {NoOptions, SmallPT, SizeOnly, LandscapeOnly}
DrawOptions == {NoOptions, SmallMM, SmallPT}

PageNumbers == 1..MaxPages
LoadInputs == {"a", "c", "x"}
MergeInputs == {<<>>, <<"a", "b">>, <<"a", "x">>, <<"c">>}

RECURSIVE PagesOf(_)
PagesOf(paths) ==
    IF paths = <<>> THEN 0
    ELSE (IF ExistsSource(Head(paths)) THEN Len(SourceFiles[Head(paths)]) ELSE 0)
         + PagesOf(Tail(paths))

\* Texts: what the font measures (width, height in points) and where they go.
LifeText ==
    [align |-> "left", size |-> 1200, textWidth |-> 4000, textHeight |-> 1000,
     position |-> [linePosition |-> 2000, columnPosition |-> 3000]]
\* The same text with its vertical position at column c.
TextAtColumn(c) ==
    [align |-> "left", size |-> 1200, textWidth |-> 4000, textHeight |-> 1000,
     position |-> [linePosition |-> 2000, columnPosition |-> c]]
\* A line and a rectangle inside every page used here.
LifeLine ==
    [start |-> [linePosition |-> 2000, columnPosition |-> 3000],
     end |-> [linePosition |-> 3000, columnPosition |-> 3000]]
LifeRectangle ==
    [start |-> [linePosition |-> 2000, columnPosition |-> 3000],
     area |-> [width |-> 1000, height |-> 1000]]
\* Positions in hundredths of the unit: inside every page used here, at or past
\* the right margin of the small pages, and short of the left and top margins.
DrawPositions ==
    {[linePosition |-> 2000, columnPosition |-> 3000],
     [linePosition |-> 9000, columnPosition |-> 3000],
     [linePosition |-> 19000, columnPosition |-> 3000],
     [linePosition |-> 500, columnPosition |-> 3000],
     [linePosition |-> 2000, columnPosition |-> 14000],
     [linePosition |-> 2000, columnPosition |-> 500]}
DrawTexts ==
    [align : {"left", "center", "right"}, size : {1200, 0 - 1200}, textWidth : {4000},
     textHeight : {1000}, position : DrawPositions]
DrawAreas == {[width |-> 1000, height |-> 1000], [width |-> 4000, height |-> 2000]}
DrawRectangles == [start : DrawPositions, area : DrawAreas]
DrawLines ==
    {[start |-> p, end |-> [linePosition |-> p.linePosition + 1000,
                            columnPosition |-> p.columnPosition]] : p \in DrawPositions}
DrawSpacings == {Margins10, [top |-> 2000, bottom |-> 0, left |-> 500, right |-> 1500]}

(***************************************************************************)
(* Bookkeeping of a call: the operation, its error, how it ended for the   *)
(* caller, and the history.                                                *)
(***************************************************************************)
Entry(name, n, paths, options, ok) ==
    [op |-> name, n |-> n, paths |-> paths, options |-> options, ok |-> ok]
Long == <<Entry("more", 0, <<>>, NoOptions, TRUE)>>
Record(h, e) == IF h = Long \/ Len(h) >= HistLen THEN Long ELSE Append(h, e)

\* A handler run in a setTimeout callback inside `new Promise(resolve => ...)`:
\* resolve() is reached only when nothing threw; an exception thrown in the
\* callback rejects the callback's own promise, which nobody holds.
TimerSettle(e) == IF e = "none" THEN "resolved" ELSE "pending"
\* An async method without the timer: an exception rejects the returned promise.
AsyncSettle(e) == IF e = "none" THEN "resolved" ELSE "rejected"
\* A synchronous method.
SyncSettle(e) == IF e = "none" THEN "returned" ELSE "thrown"

\* The caller awaits every operation: none is issued while one is pending.
Awaited == settle # "pending"

\* A call of a utility function: its name, its arguments, its result.
Call(fn, u, value, align, position, size, result) ==
    [fn |-> fn, unit |-> u, value |-> value, align |-> align,
     position |-> position, size |-> size, result |-> result]
NoCall == Call("none", None, None, None, 0, 0, 0)

Commit(r, name, how, entry) ==
    /\ document' = r.document
    /\ page' = r.page
    /\ files' = r.files
    /\ mergeFiles' = r.mergeFiles
    /\ pagesControl' = r.pagesControl
    /\ pageSelected' = r.pageSelected
    /\ unit' = r.unit
    /\ pageSize' = r.pageSize
    /\ orientation' = r.orientation
    /\ pageFraming' = r.pageFraming
    /\ pageSpacing' = r.pageSpacing
    /\ limits' = r.limits
    /\ out' = r.out
    /\ drawn' = r.drawn
    /\ nextMark' = r.nextMark
    /\ measured' = r.measured
    /\ op' = name
    /\ err' = r.err
    /\ settle' = how
    /\ hist' = Record(hist, entry)
    /\ calls' = calls + 1
    /\ util' = util

InitWith(options) ==
    LET r == Constructor(options) IN
    /\ document = r.document
    /\ page = r.page
    /\ files = r.files
    /\ mergeFiles = r.mergeFiles
    /\ pagesControl = r.pagesControl
    /\ pageSelected = r.pageSelected
    /\ unit = r.unit
    /\ pageSize = r.pageSize
    /\ orientation = r.orientation
    /\ pageFraming = r.pageFraming
    /\ pageSpacing = r.pageSpacing
    /\ limits = r.limits
    /\ out = r.out
    /\ drawn = r.drawn
    /\ nextMark = r.nextMark
    /\ measured = r.measured
    /\ op = "create"
    /\ err = "none"
    /\ settle = "resolved"
    /\ hist = <<>>
    /\ calls = 0
    /\ util = NoCall

(***************************************************************************)
(* The operations.                                                         *)
(***************************************************************************)
SelectPage(pageNumber) ==
    /\ Awaited
    /\ LET r == SelectPageBody(Cur, pageNumber)
       IN  Commit(r, "selectPage", TimerSettle(r.err),
                  Entry("selectPage", pageNumber, <<>>, NoOptions, r.err = "none"))

ClearPage ==
    /\ Awaited
    /\ LET r == ClearPageBody(Cur)
       IN  Commit(r, "clearPage", TimerSettle(r.err),
                  Entry("clearPage", 0, <<>>, NoOptions, r.err = "none"))

RemovePage(pageNumber) ==
    /\ Awaited
    /\ pagesControl > 0
    /\ LET r == RemovePageBody(Cur, pageNumber)
       IN  Commit(r, "removePage", TimerSettle(r.err),
                  Entry("removePage", pageNumber, <<>>, NoOptions, r.err = "none"))

AddPage(pageOptions) ==
    /\ Awaited
    /\ pagesControl < MaxPages
    /\ pageSelected < MaxPages
    /\ LET r == AddPageBody(Cur, pageOptions)
       IN  Commit(r, "addPage", TimerSettle(r.err),
                  Entry("addPage", 0, <<>>, pageOptions, r.err = "none"))

LoadPDF(pdfFilePath) ==
    /\ Awaited
    /\ pagesControl + PagesOf(<<pdfFilePath>>) <= MaxPages
    /\ LET r == LoadPDFBody(Cur, pdfFilePath)
       IN  Commit(r, "loadPDF", TimerSettle(r.err),
                  Entry("loadPDF", 0, <<pdfFilePath>>, NoOptions, r.err = "none"))

MergePDF(pdfFilesPath) ==
    /\ Awaited
    /\ pagesControl + PagesOf(pdfFilesPath) <= MaxPages
    /\ LET r == MergePDFBody(Cur, pdfFilesPath)
       IN  Commit(r, "mergePDF", TimerSettle(r.err),
                  Entry("mergePDF", 0, pdfFilesPath, NoOptions, r.err = "none"))

Save(filePath) ==
    /\ Awaited
    /\ LET r == SaveBody(Cur, filePath)
       IN  Commit(r, "save", TimerSettle(r.err),
                  Entry("save", 0, <<>>, NoOptions, r.err = "none"))

WriteText(o) ==
    /\ Awaited
    /\ nextMark <= MaxDraws
    /\ LET r == WriteTextBody(Cur, o)
       IN  Commit(r, "writeText", AsyncSettle(r.err),
                  Entry("writeText", 0, <<>>, NoOptions, r.err = "none"))

WriteLine(o) ==
    /\ Awaited
    /\ nextMark <= MaxDraws
    /\ LET r == WriteLineBody(Cur, o)
       IN  Commit(r, "writeLine", SyncSettle(r.err),
                  Entry("writeLine", 0, <<>>, NoOptions, r.err = "none"))

WriteRectangle(o) ==
    /\ Awaited
    /\ nextMark <= MaxDraws
    /\ LET r == WriteRectangleBody(Cur, o)
       IN  Commit(r, "writeRectangle", SyncSettle(r.err),
                  Entry("writeRectangle", 0, <<>>, NoOptions, r.err = "none"))

SetPageSpacing(spacing) ==
    /\ Awaited
    /\ LET r == SetPageSpacingBody(Cur, spacing)
       IN  Commit(r, "setPageSpacing", SyncSettle(r.err),
                  Entry("setPageSpacing", 0, <<>>, NoOptions, r.err = "none"))

(***************************************************************************)
(* Spec: the page lifecycle of a document created with no options.         *)
(***************************************************************************)
Init == InitWith(NoOptions)

\* A run issues at most MaxOps operations.
LifeStep == calls < MaxOps

Next ==
    \/ \E o \in LifeOptions : LifeStep /\ AddPage(o)
    \/ \E n \in PageNumbers : LifeStep /\ SelectPage(n)
    \/ LifeStep /\ ClearPage
    \/ \E n \in PageNumbers : LifeStep /\ RemovePage(n)
    \/ \E f \in LoadInputs : LifeStep /\ LoadPDF(f)
    \/ \E fs \in MergeInputs : LifeStep /\ MergePDF(fs)
    \/ \E p \in SavePaths : LifeStep /\ Save(p)
    \/ LifeStep /\ WriteText(LifeText)

Spec == Init /\ [][Next]_vars

(***************************************************************************)
(* SpecDraw: drawing on pages of several geometries and units.             *)
(***************************************************************************)
InitDraw == \E o \in DrawOptions : InitWith(o)

\* A drawing run issues at most MaxDrawOps operations.
DrawStep == calls < MaxDrawOps

NextDraw ==
    \/ \E o \in DrawOptions : DrawStep /\ AddPage(o)
    \/ \E sp \in DrawSpacings : DrawStep /\ SetPageSpacing(sp)
    \/ \E o \in DrawTexts : DrawStep /\ WriteText(o)
    \/ \E o \in DrawLines : DrawStep /\ WriteLine(o)
    \/ \E o \in DrawRectangles : DrawStep /\ WriteRectangle(o)
    \/ \E c \in {limits.startColumn, limits.startColumn + 100} :
          DrawStep /\ unit = "pt" /\ WriteText(TextAtColumn(c))

SpecDraw == InitDraw /\ [][NextDraw]_vars

(***************************************************************************)
(* SpecPages: every operation that is not a load or a merge, on pages of   *)
(* two geometries.                                                         *)
(***************************************************************************)
InitPages == \E o \in PageOptions : InitWith(o)

NextPages ==
    \/ \E o \in PageOptions : DrawStep /\ AddPage(o)
    \/ \E n \in PageNumbers : DrawStep /\ SelectPage(n)
    \/ DrawStep /\ ClearPage
    \/ \E n \in PageNumbers : DrawStep /\ RemovePage(n)
    \/ DrawStep /\ Save("out")
    \/ \E sp \in DrawSpacings : DrawStep /\ SetPageSpacing(sp)
    \/ DrawStep /\ WriteText(LifeText)
    \/ DrawStep /\ WriteLine(LifeLine)
    \/ DrawStep /\ WriteRectangle(LifeRectangle)

SpecPages == InitPages /\ [][NextPages]_vars

(***************************************************************************)
(* SpecRemove: loading, selecting, removing and saving, in longer runs: a  *)
(* document can lose every page it has.                                    *)
(***************************************************************************)
RemoveStep == calls < MaxRemoveOps

NextRemove ==
    \/ \E f \in LoadInputs : RemoveStep /\ LoadPDF(f)
    \/ \E n \in PageNumbers : RemoveStep /\ SelectPage(n)
    \/ \E n \in PageNumbers : RemoveStep /\ RemovePage(n)
    \/ RemoveStep /\ Save("out")

SpecRemove == Init /\ [][NextRemove]_vars

(***************************************************************************)
(* SpecUtils: a caller of the utility functions.  It converts a value to   *)
(* points, converts a result back, and resolves alignments.                *)
(***************************************************************************)
UnitNames == {"pt", "px", "in", "cm", "em", "mm", "ex", "pc"}
\* A unit: absent, one the converter does not know, or one it knows.
UnitInputs == {None, Some("zz")} \cup {Some(u) : u \in UnitNames}
\* A value: absent, zero, or a multiple of 2.5 units.
ValueInputs == {None, Some(0)} \cup {Some(250 * k) : k \in 1..MaxValue}
AlignInputs == {None, Some("left"), Some("center"), Some("right")}
AnchorInputs == {0 - 500, 0, 1234, 30000}
ExtentInputs == {0, 18, 4000}

ToPoints(u, value) ==
    /\ util' = Call("toPoints", u, value, None, 0, 0, PDFUnitNormalizerToPT(u, value))
    /\ UNCHANGED pdfVars

\* fromPoints(u, toPoints(u, v)) of the last conversion to points.
FromPoints ==
    /\ util.fn = "toPoints"
    /\ util' = [util EXCEPT !.fn = "roundTrip",
                            !.result = PDFUnitNormalizerFromPT(util.unit, Some(util.result))]
    /\ UNCHANGED pdfVars

Resolve(align, position, size) ==
    /\ util' = Call("resolve", None, None, align, position, size,
                    PDFVerticalAlignmentFormatter(AlignOrLeft(align), position, size))
    /\ UNCHANGED pdfVars

\* The legacy resolver, called with one of the three alignments.
ResolveLegacy(align, position, size) ==
    /\ util' = Call("resolveLegacy", None, None, Some(align), position, size,
                    verticalAlignmentFormatter(align, position, size))
    /\ UNCHANGED pdfVars

NextUtils ==
    \/ \E u \in UnitInputs, value \in ValueInputs : ToPoints(u, value)
    \/ FromPoints
    \/ \E a \in AlignInputs, p \in AnchorInputs, w \in ExtentInputs : Resolve(a, p, w)
    \/ \E a \in {"left", "center", "right"}, p \in AnchorInputs, w \in ExtentInputs :
          ResolveLegacy(a, p, w)

SpecUtils == Init /\ [][NextUtils]_vars

(***************************************************************************)
(* What a history of operations is meant to produce: the marks of each     *)
(* logical page, in document order, and the page meant to be in memory.    *)
(* A new page goes to the end and becomes the active page; loaded and      *)
(* merged pages go to the end in source order.  An operation that failed   *)
(* changes nothing.                                                        *)
(***************************************************************************)
Marks(doc) == [i \in 1..Len(doc) |-> doc[i].marks]

RECURSIVE SourceMarks(_)
SourceMarks(paths) ==
    IF paths = <<>> THEN <<>>
    ELSE (IF ExistsSource(Head(paths)) THEN Marks(SourceFiles[Head(paths)]) ELSE <<>>)
         \o SourceMarks(Tail(paths))

LogicalStep(p, e) ==
    IF ~e.ok THEN p
    ELSE CASE e.op = "addPage" ->
                [p EXCEPT !.pages = Append(p.pages, {}), !.sel = Len(p.pages) + 1]
           [] e.op = "selectPage" -> [p EXCEPT !.sel = e.n]
           [] e.op \in {"writeText", "writeLine", "writeRectangle"} ->
                [p EXCEPT !.pages[p.sel] = @ \cup {p.mark}, !.mark = p.mark + 1]
           [] e.op = "clearPage" -> [p EXCEPT !.pages[p.sel] = {}]
           [] e.op = "removePage" ->
                [p EXCEPT !.pages = RemoveAt(p.pages, e.n),
                          !.sel = IF e.n < p.sel THEN p.sel - 1 ELSE p.sel]
           [] e.op \in {"loadPDF", "mergePDF"} ->
                [p EXCEPT !.pages = p.pages \o SourceMarks(e.paths),
                          !.sel = Len(p.pages) + Len(SourceMarks(e.paths))]
           [] OTHER -> p

RECURSIVE Logical(_)
Logical(h) ==
    IF h = <<>> THEN [pages |-> <<{}>>, sel |-> 1, mark |-> 1]
    ELSE LogicalStep(Logical(SubSeq(h, 1, Len(h) - 1)), h[Len(h)])

Known == hist # Long
Before == SubSeq(hist, 1, Len(hist) - 1)
LastEntry == hist[Len(hist)]
AllOk(h, ops) == \A i \in 1..Len(h) : h[i].ok /\ h[i].op \in ops

(***************************************************************************)
(* C1: after any awaited sequence of addPage, selectPage and draw          *)
(* operations, a save writes exactly getNumberOfPages() pages, and its     *)
(* i-th page carries what was last drawn on logical page i.                *)
(***************************************************************************)
C1_SaveWritesEveryLogicalPage ==
    (/\ Known /\ hist # <<>>
     /\ LastEntry.op = "save" /\ LastEntry.ok
     /\ AllOk(Before, {"addPage", "selectPage", "writeText"}))
    => (/\ Len(out) = pagesControl
        /\ Marks(out) = Logical(hist).pages)

(***************************************************************************)
(* C2: create(), then mergePDF([a, b]) of two 1-page documents:            *)
(* getNumberOfPages() is 3, and a save then writes three pages, the        *)
(* original page, a's page, b's page, in that order.                       *)
(***************************************************************************)
MergeAB == Entry("mergePDF", 0, <<"a", "b">>, NoOptions, TRUE)
SaveOk == Entry("save", 0, <<>>, NoOptions, TRUE)

C2_MergeTwoThenSave ==
    /\ hist = <<MergeAB>> => pagesControl = 3
    /\ hist = <<MergeAB, SaveOk>> =>
           out = <<BlankPage(PageSizesA4)>> \o SourceFiles["a"] \o SourceFiles["b"]

C2_Witness ==
    /\ hist = <<MergeAB, SaveOk>>
    /\ op = "save" /\ err = "none" /\ Len(out) = 3

(***************************************************************************)
(* C3: create(), addPage(), removePage(1): getNumberOfPages() is 1 and the *)
(* page in memory, which is also what a following save writes, is the page *)
(* that was page 2.                                                        *)
(***************************************************************************)
C3_RemoveFirstKeepsSecond ==
    [][(/\ Len(hist) = 1 /\ hist[1].op = "addPage"
        /\ RemovePage(1))
       => (/\ pagesControl' = 1
           /\ document' = document
           /\ (SaveBody(Cur, "out").out)' = document)]_vars

(***************************************************************************)
(* C4: after a successful save no scratch file of the instance exists.     *)
(***************************************************************************)
C4_NoScratchAfterSave ==
    (op = "save" /\ err = "none") => DOMAIN files = {}

(***************************************************************************)
(* C5: a writeText that completes draws text whose extent, horizontally    *)
(* [x, x + textWidth] and vertically [y, y + textHeight], lies within the  *)
(* limits, whatever the alignment.                                         *)
(***************************************************************************)
InsideLimits(d) ==
    /\ d.x >= limits.startLine
    /\ d.x + d.width <= limits.endLine
    /\ d.y >= limits.endColumn
    /\ d.y + d.height <= limits.startColumn

C5_TextInsideLimits ==
    (op = "writeText" /\ err = "none") => InsideLimits(drawn[1])

(***************************************************************************)
(* C6: a writeRectangle that completes draws a rectangle within the        *)
(* limits, its width and height being the caller's area converted from the *)
(* document's unit.                                                        *)
(***************************************************************************)
C6_RectangleInsideLimits ==
    [][\A o \in DrawRectangles :
          (WriteRectangle(o) /\ err' = "none")
          => (/\ InsideLimits(drawn[1])'
              /\ drawn'[1].width = PDFUnitNormalizerToPT(Some(unit), Some(o.area.width))
              /\ drawn'[1].height = PDFUnitNormalizerToPT(Some(unit), Some(o.area.height)))]_vars

(***************************************************************************)
(* C7: a selectPage, removePage, loadPDF, mergePDF or save that fails with *)
(* PageNotFound, SourceFileNotFound, EmptyFileList or NoPagesToSave        *)
(* rejects the promise it returned.                                        *)
(***************************************************************************)
LifecycleErrors ==
    {"PageNotFound", "SourceFileNotFound", "EmptyFileList", "NoPagesToSave"}

C7_FailureRejectsPromise ==
    (/\ op \in {"selectPage", "removePage", "loadPDF", "mergePDF", "save"}
     /\ err \in LifecycleErrors)
    => settle = "rejected"

(***************************************************************************)
(* C8: an operation that fails with one of these errors leaves the record  *)
(* as it was before the call.                                              *)
(***************************************************************************)
C8_FailureKeepsRecord ==
    [][err' \in LifecycleErrors => mergeFiles' = mergeFiles]_vars

C10_SelectedPageInMemory ==
    (/\ Known /\ hist # <<>>
     /\ LastEntry.op = "selectPage" /\ LastEntry.ok
     /\ AllOk(Before, {"addPage", "selectPage", "writeText", "loadPDF", "mergePDF"}))
    => (/\ pageSelected = LastEntry.n
        /\ LastEntry.n \in 1..Len(Logical(hist).pages)
        /\ Marks(document) = <<Logical(hist).pages[LastEntry.n]>>)

(***************************************************************************)
(* C11: a loadPDF that succeeds raises getNumberOfPages() by the number of *)
(* pages of the source; after create(), loadPDF of a 1-page source and     *)
(* addPage(), getNumberOfPages() is 3.                                     *)
(***************************************************************************)
LoadOk(path) == Entry("loadPDF", 0, <<path>>, NoOptions, TRUE)
AddOk == Entry("addPage", 0, <<>>, NoOptions, TRUE)

C11_LoadAddsSourcePages ==
    /\ [][\A f \in LoadInputs :
             (LoadPDF(f) /\ err' = "none")
             => pagesControl' = pagesControl + Len(SourceFiles[f])]_vars
    /\ [](hist = <<LoadOk("a"), AddOk>> => pagesControl = 3)

\* loadPDF of the 2-page source right after create().
C11_Witness ==
    /\ hist = <<LoadOk("c")>> /\ op = "loadPDF" /\ err = "none"
    /\ pagesControl = 3

(***************************************************************************)
(* C12: after create(), loadPDF or mergePDF of the 2-page source and save, *)
(* the output is the original page followed by the two source pages, each  *)
(* once, in source order.                                                  *)
(***************************************************************************)
C12_SourcePagesOnceInOrder ==
    \A e \in {LoadOk("c"), Entry("mergePDF", 0, <<"c">>, NoOptions, TRUE)} :
        hist = <<e, SaveOk>>
        => out = <<BlankPage(PageSizesA4)>> \o SourceFiles["c"]

(***************************************************************************)
(* C13: getNumberOfPages() is 1 after create(); an addPage that succeeds   *)
(* raises it by one, a removePage that succeeds lowers it by one, and      *)
(* selectPage, clearPage, setPageSpacing, writeText, writeLine,            *)
(* writeRectangle and save leave it as it is.                              *)
(***************************************************************************)
C13_PageCount ==
    /\ pagesControl = 1
    /\ [][err' = "none" =>
             CASE op' = "addPage" -> pagesControl' = pagesControl + 1
               [] op' = "removePage" -> pagesControl' = pagesControl - 1
               [] op' \in {"selectPage", "clearPage", "setPageSpacing", "writeText",
                           "writeLine", "writeRectangle", "save"} ->
                      pagesControl' = pagesControl
               [] OTHER -> TRUE]_vars

\* create(), addPage(), removePage(1).
C13_Witness ==
    /\ Len(hist) = 2 /\ hist[1].op = "addPage" /\ hist[2].op = "removePage"
    /\ op = "removePage" /\ err = "none" /\ pagesControl = 1

(***************************************************************************)
(* C14: an addPage without options creates a page of the size and with the *)
(* margins, hence the limits, of the page that was active before it.       *)
(***************************************************************************)
C14_AddPageKeepsGeometry ==
    [][AddPage(NoOptions)
       => (pageSize' = pageSize /\ pageSpacing' = pageSpacing /\ limits' = limits)]_vars

(***************************************************************************)
(* C15: in a document in points, whatever the margins, a text whose        *)
(* vertical position is limits.startColumn is written, and the same text   *)
(* one point further fails with an out-of-range column error.              *)
(***************************************************************************)
C15_StartColumnIsTheEdge ==
    [][unit = "pt" =>
          (/\ WriteText(TextAtColumn(limits.startColumn)) => err' = "none"
           /\ WriteText(TextAtColumn(limits.startColumn + 100))
                  => err' \in {"OutOfRangeColumn", "OutOfRangeColumnWithHeight"})]_vars

(***************************************************************************)
(* C16: a save called with an empty record and a page counter of zero      *)
(* fails with NoPagesToSave and leaves the destination file as it was.     *)
(***************************************************************************)
C16_SaveWithoutPages ==
    [][(mergeFiles = <<>> /\ pagesControl = 0 /\ Save("out"))
       => (err' = "NoPagesToSave" /\ out' = out)]_vars

C16_Witness ==
    /\ op = "save" /\ err = "NoPagesToSave"
    /\ mergeFiles = <<>> /\ pagesControl = 0 /\ out = <<>>

(***************************************************************************)
(* C17: for every unit other than em and every positive value, converting  *)
(* to points and back gives the value within 0.01.                         *)
(***************************************************************************)
C17_RoundTripWithinTolerance ==
    (/\ util.fn = "roundTrip" /\ util.unit # Some("em")
     /\ util.value # None /\ util.value # Some(0))
    => (/\ util.result - util.value[1] <= 1
        /\ util.value[1] - util.result <= 1)

(***************************************************************************)
(* C18: the alignment resolver returns the anchor for left and for an      *)
(* unspecified alignment, the anchor less the extent for right, and the    *)
(* anchor less half the extent for center.                                 *)
(***************************************************************************)
C18_AlignmentResolver ==
    util.fn = "resolve" =>
        (/\ util.align \in {None, Some("left")} => util.result = util.position
         /\ util.align = Some("right") => util.result = util.position - util.size
         /\ util.align = Some("center")
                => 2 * util.result = 2 * util.position - util.size)

C18_Witness ==
    /\ util.fn = "resolve" /\ util.align = Some("center")
    /\ util.position = 1234 /\ util.size = 4000 /\ util.result = 0 - 766

(***************************************************************************)
(* C19: converting an absent value or the value 0 to points gives 0, for   *)
(* every unit, an unrecognized and an absent unit included.                *)
(***************************************************************************)
C19_NothingConvertsToZero ==
    (util.fn = "toPoints" /\ util.value \in {None, Some(0)}) => util.result = 0

C19_Witness ==
    /\ util.fn = "toPoints" /\ util.unit = Some("zz")
    /\ util.value = None /\ util.result = 0

(***************************************************************************)
(* C20: over addPage, selectPage and writeText, an operation that persists *)
(* the page in memory writes only the scratch file of the logical page     *)
(* that is in memory: every other scratch file keeps its content.          *)
(***************************************************************************)
C20_PersistKeepsOtherPages ==
    [][(/\ hist' # Long
        /\ AllOk(hist', {"addPage", "selectPage", "writeText"}))
       => \A n \in DOMAIN files :
             n # Logical(hist).sel => (n \in DOMAIN files' /\ files'[n] = files[n])]_vars

(***************************************************************************)
(* C21: between awaited operations, before any save, the document in       *)
(* memory holds at most one page, also after loadPDF or mergePDF of a      *)
(* source of several pages.                                                *)
(***************************************************************************)
NoSaveYet == Known /\ \A i \in 1..Len(hist) : hist[i].op # "save"

C21_OnePageInMemory == NoSaveYet => Len(document) <= 1

(***************************************************************************)
(* C22: before any save, every scratch file the record lists holds exactly *)
(* one page.                                                               *)
(***************************************************************************)
C22_ScratchFilesHoldOnePage ==
    NoSaveYet =>
        \A i \in 1..Len(mergeFiles) :
            mergeFiles[i] \in DOMAIN files => Len(files[mergeFiles[i]]) = 1

(***************************************************************************)
(* C23: a save deletes a scratch file only once the destination is         *)
(* written, and clears the record only once the files it listed are        *)
(* deleted.  When the destination cannot be written, every file the record *)
(* lists still exists and the record is not cleared: it lists what it      *)
(* listed before the save, followed at most by the file of the last page.  *)
(***************************************************************************)
SaveIsOrdered ==
    /\ (\E n \in DOMAIN files : n \notin DOMAIN files')
           => (err' = "none" /\ out' = document')
    /\ (mergeFiles # <<>> /\ mergeFiles' = <<>>)
           => \A n \in Range(mergeFiles) : n \notin DOMAIN files'

C23_SaveOrdersWriteDeleteClear ==
    [][\A p \in SavePaths :
          Save(p) =>
             /\ SaveIsOrdered
             /\ ~WritableFile(p) =>
                    /\ \A n \in Range(mergeFiles') : n \in DOMAIN files'
                    /\ Len(mergeFiles') >= Len(mergeFiles)
                    /\ SubSeq(mergeFiles', 1, Len(mergeFiles)) = mergeFiles
                    /\ Range(mergeFiles') \subseteq Range(mergeFiles) \cup {pagesControl}]_vars

\* create(), addPage(), save to a destination that cannot be written.
C23_Witness ==
    /\ Len(hist) = 2 /\ hist[1].op = "addPage" /\ op = "save" /\ err = "IOError"
    /\ mergeFiles = <<1, 2>> /\ DOMAIN files = {1, 2} /\ out = <<>>

\* The stronger statement: when the destination cannot be written the record
\* is as it was before the save.
C23_FailedWriteKeepsRecord ==
    [][\A p \in SavePaths :
          Save(p) =>
             /\ SaveIsOrdered
             /\ ~WritableFile(p) =>
                    /\ \A n \in Range(mergeFiles') : n \in DOMAIN files'
                    /\ mergeFiles' = mergeFiles]_vars

(***************************************************************************)
(* C24: selectPage(n) with n the selected page changes nothing: no scratch *)
(* file is written, and the record, the counter, the pointer and the       *)
(* document in memory are as before.                                       *)
(***************************************************************************)
C24_SelectSelectedPage ==
    [][\A n \in PageNumbers :
          (n = pageSelected /\ SelectPage(n))
          => (/\ err' = "none"
              /\ UNCHANGED <<files, mergeFiles, pagesControl, pageSelected,
                             document, page>>)]_vars

\* create(), addPage(), selectPage(2).
C24_Witness ==
    /\ Len(hist) = 2 /\ hist[1].op = "addPage"
    /\ hist[2].op = "selectPage" /\ hist[2].n = 2 /\ hist[2].ok
    /\ pageSelected = 2 /\ mergeFiles = <<1>> /\ DOMAIN files = {1}

(***************************************************************************)
(* C25: after a clearPage the active page is blank, has the width and the  *)
(* height of the page that was active before the call, and the page        *)
(* counter is as before.                                                   *)
(***************************************************************************)
C25_ClearKeepsPageSize ==
    [][(ClearPage /\ err' = "none" /\ page \in 1..Len(document))
       => (/\ page' \in 1..Len(document')
           /\ document'[page'] = BlankPage(<<document[page].w, document[page].h>>)
           /\ pagesControl' = pagesControl)]_vars

(***************************************************************************)
(* C26: in every state the framing is (0..width, 0..height) of the page    *)
(* held in memory.                                                         *)
(***************************************************************************)
C26_FramingOfActivePage ==
    page \in 1..Len(document) =>
        pageFraming = [lineStartPosition |-> 0,
                       lineEndPosition |-> document[page].w,
                       columnStartPosition |-> 0,
                       columnEndPosition |-> document[page].h]

(***************************************************************************)
(* C27: in every state the limits are the framing inset by the spacing.    *)
(***************************************************************************)
C27_LimitsFollowFramingAndSpacing ==
    /\ limits.startLine = pageFraming.lineStartPosition + pageSpacing.left
    /\ limits.endLine = pageFraming.lineEndPosition - pageSpacing.right
    /\ limits.startColumn = pageFraming.columnEndPosition - pageSpacing.top
    /\ limits.endColumn = pageFraming.columnStartPosition + pageSpacing.bottom

\* After a setPageSpacing with four different margins.
C27_Witness ==
    /\ op = "setPageSpacing"
    /\ pageSpacing = [top |-> 2000, bottom |-> 0, left |-> 500, right |-> 1500]
    /\ limits = [startLine |-> 500, endLine |-> 18500,
                 startColumn |-> 28000, endColumn |-> 0]

(***************************************************************************)
(* C28: a writeText, writeLine or writeRectangle that fails draws nothing: *)
(* no draw primitive is invoked and the page content is as before.         *)
(***************************************************************************)
C28_FailedDrawDrawsNothing ==
    [][(op' \in {"writeText", "writeLine", "writeRectangle"} /\ err' # "none")
       => (document' = document /\ drawn' = drawn /\ nextMark' = nextMark)]_vars

\* A rectangle that fails on a page nothing was drawn on.
C28_Witness ==
    /\ op = "writeRectangle" /\ err = "OutOfRangeLine"
    /\ drawn = <<>> /\ nextMark = 1 /\ document[1].marks = {}

(***************************************************************************)
(* C29: a writeText with a negative size fails with NegativeValue before   *)
(* the font is asked for a height or a width, before any bounds check and  *)
(* before any draw.                                                        *)
(***************************************************************************)
C29_NegativeSizeFailsFirst ==
    [][\A o \in DrawTexts :
          (o.size < 0 /\ WriteText(o))
          => (/\ err' = "NegativeValue" /\ ~measured'
              /\ document' = document /\ drawn' = drawn)]_vars

C29_Witness ==
    /\ op = "writeText" /\ err = "NegativeValue" /\ ~measured /\ drawn = <<>>

(***************************************************************************)
(* C30: when the promise of a save resolves, the destination holds the     *)
(* assembled document, the first page of every scratch file in record      *)
(* order with the page in memory as the last page's file, every scratch    *)
(* file of the record is deleted and the record is empty.                  *)
(***************************************************************************)
RecordAtSave ==
    IF pagesControl \in Range(mergeFiles) THEN mergeFiles
    ELSE Append(mergeFiles, pagesControl)
Assembled ==
    IF mergeFiles = <<>> THEN DocumentSave(document)
    ELSE [i \in 1..Len(RecordAtSave) |->
             IF RecordAtSave[i] = pagesControl THEN DocumentSave(document)[1]
             ELSE files[RecordAtSave[i]][1]]

C30_SaveResolvesWhenDone ==
    [][\A p \in SavePaths :
          (Save(p) /\ settle' = "resolved")
          => (/\ WritableFile(p)
              /\ out' = Assembled
              /\ mergeFiles' = <<>>
              /\ mergeFiles # <<>> =>
                     \A n \in Range(RecordAtSave) : n \notin DOMAIN files')]_vars

\* create(), addPage(), save.
C30_Witness ==
    /\ Len(hist) = 2 /\ hist[1].op = "addPage" /\ op = "save"
    /\ settle = "resolved" /\ Len(out) = 2 /\ DOMAIN files = {} /\ mergeFiles = <<>>


(***************************************************************************)
(* C31: create or addPage given a page size without a unit uses that size, *)
(* read in the active unit (mm for create, the unit in force for addPage), *)
(* and does not fall back to A4.                                           *)
(***************************************************************************)
SizedIn(u) == PDFGetPageSizeByUnit(Some(u), SizeOnly.pageSize)[1]

C31_SizeWithoutUnit ==
    /\ Constructor(SizeOnly).pageSize = SizedIn("mm")
    /\ [][(orientation = "portrait" /\ AddPage(SizeOnly) /\ err' = "none")
            => (/\ pageSize' = SizedIn(unit)
                /\ document'[page'].w = SizedIn(unit)[1]
                /\ document'[page'].h = SizedIn(unit)[2])]_vars

(***************************************************************************)
(* C32: addPage() without an orientation keeps the orientation of the page *)
(* that was active: after a portrait create, addPage({orientation:         *)
(* 'landscape'}) and addPage(), the third page is landscape.               *)
(***************************************************************************)
AddLandscape == Entry("addPage", 0, <<>>, LandscapeOnly, TRUE)

C32_AddPageKeepsOrientation ==
    (orientation = "portrait" /\ hist = <<AddLandscape, AddOk>>)
    => (/\ page \in 1..Len(document)
        /\ document[page].w > document[page].h)



(***************************************************************************)
(* C33: in a state reached without a removePage, the record entry at       *)
(* position N is the scratch path part<N>.                                 *)
(***************************************************************************)
NoRemoveYet == Known /\ \A i \in 1..Len(hist) : hist[i].op # "removePage"

C33_RecordInPageOrder ==
    NoRemoveYet => \A i \in 1..Len(mergeFiles) : mergeFiles[i] = i

(***************************************************************************)
(* C34: the selected-page pointer lies in 1..getNumberOfPages() and names  *)
(* the page held in memory; after addPage it equals the page counter.      *)
(***************************************************************************)
PageEdits ==
    {"addPage", "selectPage", "clearPage", "writeText", "writeLine", "writeRectangle"}

C34_PointerNamesPageInMemory ==
    /\ pageSelected \in 1..pagesControl
    /\ (op = "addPage" /\ err = "none") => pageSelected = pagesControl
    /\ (Known /\ AllOk(hist, PageEdits))
           => (/\ pageSelected \in 1..Len(Logical(hist).pages)
               /\ Marks(document) = <<Logical(hist).pages[pageSelected]>>)

(***************************************************************************)
(* C35: getNumberOfPages() is the number of pages a save issued in the     *)
(* state writes to the output file.                                        *)
(***************************************************************************)
C35_CounterIsSavedPageCount ==
    [][(Save("out") /\ err' = "none") => Len(out') = pagesControl]_vars

(***************************************************************************)
(* C36: every path in the record names a scratch file that exists, and the *)
(* record holds no path twice.                                             *)
(***************************************************************************)
C36_RecordNamesExistingFiles ==
    /\ \A i \in 1..Len(mergeFiles) : mergeFiles[i] \in DOMAIN files
    /\ \A i, j \in 1..Len(mergeFiles) : mergeFiles[i] = mergeFiles[j] => i = j

\* A removePage that deleted one scratch file and left another in the record.
C36_Witness ==
    /\ op = "removePage" /\ err = "none"
    /\ Len(mergeFiles) >= 1 /\ Range(mergeFiles) \subseteq DOMAIN files

(***************************************************************************)
(* C37: a save that directly follows a save to the same path writes the    *)
(* same page sequence again.                                               *)
(***************************************************************************)
C37_SaveTwiceWritesTheSame ==
    [][(op = "save" /\ err = "none" /\ out # <<>> /\ Save("out"))
          => (err' = "none" /\ out' = out)]_vars

(***************************************************************************)
(* C38: the legacy helper verticalAlignmentFormatter returns what          *)
(* PDFVerticalAlignmentFormatter returns, for left, center and right and   *)
(* every anchor and extent.                                                *)
(***************************************************************************)
C38_LegacyResolverAgrees ==
    util.fn = "resolveLegacy"
    => util.result = PDFVerticalAlignmentFormatter(util.align[1], util.position, util.size)


=============================================================================
